---- MODULE Spec2Model ----
(***************************************************************************)
(* bussinBank: the ledger store (core/ledger.py), its domain model        *)
(* (core/models.py) and the forecaster (core/forecaster.py).               *)
(*                                                                         *)
(* Money is counted in half cents (0.005), so that an amount finer than a  *)
(* cent can be told from its quantized value: 200 is 1.00, 201 is 1.005.   *)
(* A date is a day number, day 1 being 1 January of a non-leap year.       *)
(***************************************************************************)
EXTENDS Integers, Sequences, FiniteSets, TLC

VARIABLES
    proc,   \* the module-level singleton `ledger = Ledger()`: "down", "up", "failed"
    data,   \* Ledger.data, the in-memory LedgerData (NoData while not up)
    fs,     \* the data directory: path -> content
    now,    \* datetime.utcnow(), as a counter
    uuid,   \* how many uuid4() ids have been drawn
    pc,     \* where a save in progress stands: "idle", "write", "replace"
    call,   \* the last operation called, its arguments and its outcome
    loaded  \* the LedgerData this process was constructed with (history)

vars == <<proc, data, fs, now, uuid, pc, call, loaded>>

\* ---------------------------------------------------------------- bounds

\* Transactions one ledger holds at most.
MaxTx == 2
\* uuid4() ids drawn at most.
MaxUuid == 3
\* date.today(), as a day number (6 November).
Today == 310

\* ------------------------------------------------------------- constants

LEDGER_PATH == "ledger.json"
TMP_PATH == "ledger.tmp"
Paths == {LEDGER_PATH, TMP_PATH}

\* What a path holds: no file, or a file with the members written so far.
Absent == [exists |-> FALSE, text |-> <<>>]
File(doc) == [exists |-> TRUE, text |-> doc]
NoData == [none |-> TRUE]
NoId == "<no id>"
Missing == "<missing>"

TransactionType == {"income", "expense", "transfer", "refund", "adjustment"}
KnownVersion == "1.0"

\* ------------------------------------------------------------- arithmetic

Abs(x) == IF x < 0 THEN -x ELSE x
Max(a, b) == IF a >= b THEN a ELSE b

\* floor(n / d), d > 0
FloorDiv(n, d) == (n - (n % d)) \div d

\* ceiling(n / d), d > 0
CeilDiv(n, d) == -FloorDiv(-n, d)

\* n / d rounded to the nearest integer, a tie to the even one (ROUND_HALF_EVEN,
\* the rounding of Decimal's default context), d > 0
RoundHalfEven(n, d) ==
    LET f == FloorDiv(n, d)
        r == n - f * d
    IN  IF 2 * r < d THEN f
        ELSE IF 2 * r > d THEN f + 1
        ELSE IF f % 2 = 0 THEN f ELSE f + 1

\* Decimal.quantize(Decimal("0.01")) of h half cents, in half cents
Quantize(h) == 2 * RoundHalfEven(h, 2)

\* (n / d).quantize(Decimal("0.01")) of n / d half cents, in half cents
QuantizeRatio(n, d) == 2 * RoundHalfEven(n, 2 * d)

RECURSIVE SumOver(_, _)
SumOver(f, S) ==
    IF S = {} THEN 0
    ELSE LET x == CHOOSE y \in S : TRUE IN f[x] + SumOver(f, S \ {x})

\* ----------------------------------------------------------- domain model

\* Transaction.parse_amount: an int, float or str is quantized to cents, anything
\* else (a Decimal) is passed on as it is.
parse_amount(a) == IF a.kind = "str" THEN Quantize(a.v) ELSE a.v

\* Transaction.validate_amount_sign: what the model validator lets through.
validate_amount_sign(type, amount) ==
    /\ ~(type = "income" /\ amount < 0)
    /\ ~(type = "expense" /\ amount > 0)

\* Whether Transaction.model_validate(raw) returns a Transaction.
TransactionValid(raw) ==
    /\ raw.description # Missing
    /\ raw.type \in TransactionType
    /\ validate_amount_sign(raw.type, parse_amount(raw.amount))

Uuid(n) == <<"uuid1", "uuid2", "uuid3", "uuid4", "uuid5">>[n]

\* The Transaction that Transaction.model_validate(raw) returns; id is the
\* default factory's uuid4() when the input has none.
Transaction(raw, fresh) ==
    [id         |-> IF raw.id = NoId THEN fresh ELSE raw.id,
     date       |-> raw.date,
     amount     |-> parse_amount(raw.amount),
     category   |-> raw.category,
     account_id |-> raw.account_id,
     type       |-> raw.type]

\* LedgerData(): the default factories of an empty ledger.
LedgerData(t) ==
    [accounts     |-> [a \in {} |-> 0],
     transactions |-> <<>>,
     goals        |-> [g \in {} |-> 0],
     metadata     |-> [version |-> KnownVersion, created |-> t, last_updated |-> t]]

\* --------------------------------------------------------- the ledger file

\* LedgerData.model_dump_json: the document's four members. A Decimal is written
\* as its digits, so every number is written exactly.
model_dump_json(d) == <<d.accounts, d.transactions, d.goals, d.metadata>>

\* json.loads: only a whole document parses.
JsonOk(doc) == Len(doc) = 4

\* A transaction read back: its amount arrives as a string, which parse_amount
\* quantizes.
ReadTransaction(t) == [t EXCEPT !.amount = Quantize(t.amount)]

\* LedgerData.model_validate(json.loads(text)) succeeds: every transaction passes
\* its validators. metadata is a plain dict: nothing in it is checked.
model_validate_ok(doc) ==
    /\ JsonOk(doc)
    /\ \A i \in 1..Len(doc[2]) :
          validate_amount_sign(doc[2][i].type, Quantize(doc[2][i].amount))

model_validate(doc) ==
    [accounts     |-> doc[1],
     transactions |-> [i \in 1..Len(doc[2]) |-> ReadTransaction(doc[2][i])],
     goals        |-> doc[3],
     metadata     |-> doc[4]]

\* Ledger._load_from_disk: "fresh" when there is no file, "RuntimeError" when it
\* does not parse or validate, the LedgerData otherwise.
load_from_disk_ok(f) == ~f[LEDGER_PATH].exists \/ model_validate_ok(f[LEDGER_PATH].text)

load_from_disk(f, t) ==
    IF ~f[LEDGER_PATH].exists THEN LedgerData(t) ELSE model_validate(f[LEDGER_PATH].text)

\* Ledger.save, start to end: the text is written to the temporary path, which then
\* replaces the ledger file.
save(f, d) == [f EXCEPT ![LEDGER_PATH] = File(model_dump_json(d)), ![TMP_PATH] = Absent]

\* ------------------------------------------------------------ the mutation

\* The append written as an assignment of a new list.
AppendTransactionReplacing(d, tx) == [d EXCEPT !.transactions = <<tx>>]

\* Ledger.add_transaction up to the account lookup: the append.
AppendTransaction(d, tx) == [d EXCEPT !.transactions = Append(@, tx)]

\* add_transaction with the balance update left out.
add_transaction_no_balance(d, tx, t) ==
    [d EXCEPT !.transactions = Append(@, tx),
              !.metadata.last_updated = t]

\* Ledger.add_transaction when the account exists: append, add the amount to the
\* account's balance, stamp metadata.
add_transaction(d, tx, t) ==
    [d EXCEPT !.transactions = Append(@, tx),
              !.accounts[tx.account_id].balance = @ + tx.amount,
              !.metadata.last_updated = t]

\* ------------------------------------------------------------------ inputs

ExampleAccounts ==
    [a \in {"chase", "amex"} |->
        IF a = "chase"
        THEN [type |-> "checking", balance |-> 1000, include_in_net_worth |-> TRUE]
        ELSE [type |-> "credit_card", balance |-> -400, include_in_net_worth |-> TRUE]]

ExampleGoals == [g \in {"japan"} |-> [status |-> "active"]]

ExampleDoc(version) ==
    <<ExampleAccounts, <<>>, ExampleGoals,
      [version |-> version, created |-> 0, last_updated |-> 0]>>

\* What the ledger file may hold when the program starts: nothing, a ledger of
\* this schema, a ledger of another schema version, a file cut short.
InitialFiles ==
    {Absent, File(ExampleDoc("1.0")), File(ExampleDoc("2.0")),
     File(SubSeq(ExampleDoc("1.0"), 1, 2))}

RawAmounts ==
    {[kind |-> "str", v |-> -200], [kind |-> "str", v |-> 0],
     [kind |-> "str", v |-> 201], [kind |-> "decimal", v |-> 201]}

\* Raw inputs with every required field.
CompleteInputs ==
    [id          : {NoId, "tx1"},
     date        : {Today - 30, Today + 1},
     amount      : RawAmounts,
     description : {"x"},
     category    : {<<"food", "groceries">>},
     account_id  : {"chase", "ghost"},
     type        : {"income", "expense", "transfer"}]

\* and one that lacks a required field.
RawInputs ==
    CompleteInputs \cup
    {[id |-> NoId, date |-> Today, amount |-> [kind |-> "str", v |-> 200],
      description |-> Missing, category |-> <<"food", "groceries">>,
      account_id |-> "chase", type |-> "income"]}

\* ----------------------------------------------------------------- actions

Init ==
    /\ proc = "down"
    /\ data = NoData
    /\ fs \in {[p \in Paths |-> IF p = LEDGER_PATH THEN f ELSE Absent] : f \in InitialFiles}
    /\ now = 1
    /\ uuid = 0
    /\ pc = "idle"
    /\ call = [op |-> "none"]
    /\ loaded = NoData

\* `ledger = Ledger()`: the singleton is built from the file when the module is
\* imported.
Construct ==
    /\ proc = "down"
    /\ IF load_from_disk_ok(fs)
       THEN /\ proc' = "up"
            /\ data' = load_from_disk(fs, now)
            /\ loaded' = load_from_disk(fs, now)
            /\ call' = [op |-> "Ledger", outcome |-> "ok"]
       ELSE /\ proc' = "failed"
            /\ call' = [op |-> "Ledger", outcome |-> "RuntimeError"]
            /\ UNCHANGED <<data, loaded>>
    /\ UNCHANGED <<fs, now, uuid, pc>>

\* The process ends; what it held in memory is gone.
Exit ==
    /\ proc \in {"up", "failed"}
    /\ pc = "idle"
    /\ proc' = "down"
    /\ data' = NoData
    /\ loaded' = NoData
    /\ call' = [op |-> "exit"]
    /\ UNCHANGED <<fs, now, uuid, pc>>

\* Ledger.add_transaction_safe(raw), start to end.
AddTransactionSafe(raw) ==
    /\ proc = "up"
    /\ pc = "idle"
    /\ Len(data.transactions) < MaxTx
    /\ raw.id = NoId => uuid < MaxUuid
    /\ IF ~TransactionValid(raw)
       THEN /\ call' = [op |-> "add_transaction_safe", raw |-> raw,
                        outcome |-> "ValidationError"]
            /\ UNCHANGED <<data, fs, now, uuid>>
       ELSE LET tx == Transaction(raw, Uuid(uuid + 1)) IN
            /\ uuid' = IF raw.id = NoId THEN uuid + 1 ELSE uuid
            /\ IF tx.account_id \notin DOMAIN data.accounts
               THEN /\ data' = AppendTransaction(data, tx)
                    /\ call' = [op |-> "add_transaction_safe", raw |-> raw,
                                outcome |-> "KeyError"]
                    /\ UNCHANGED <<fs, now>>
               ELSE /\ data' = add_transaction(data, tx, now + 1)
                    /\ now' = now + 1
                    /\ fs' = save(fs, add_transaction(data, tx, now + 1))
                    /\ call' = [op |-> "add_transaction_safe", raw |-> raw,
                                outcome |-> "ok", tx |-> tx]
    /\ UNCHANGED <<proc, pc, loaded>>

Next ==
    \/ Construct
    \/ Exit
    \/ \E raw \in RawInputs : AddTransactionSafe(raw)

Spec == Init /\ [][Next]_vars

\* ------------------------------------------------- the save, step by step

\* Ledger.save writes the text to the ledger file itself.
save_write_in_place == LEDGER_PATH

\* Ledger.save: the path write_text writes to, tmp_path.
save_write_path == TMP_PATH

CrashInputs ==
    {r \in CompleteInputs : r.id = NoId /\ r.date = Today + 1 /\ r.type = "transfer"}

InitCrash ==
    /\ proc = "down"
    /\ data = NoData
    /\ fs \in {[p \in Paths |-> IF p = LEDGER_PATH THEN f ELSE Absent] :
                 f \in {Absent, File(ExampleDoc("1.0"))}}
    /\ now = 1
    /\ uuid = 0
    /\ pc = "idle"
    /\ call = [op |-> "none"]
    /\ loaded = NoData

\* add_transaction_safe up to its call of save: validation and add_transaction.
BeginAdd(raw) ==
    /\ proc = "up"
    /\ pc = "idle"
    /\ Len(data.transactions) < MaxTx
    /\ raw.id = NoId => uuid < MaxUuid
    /\ IF ~TransactionValid(raw)
       THEN /\ call' = [op |-> "add_transaction_safe", raw |-> raw,
                        outcome |-> "ValidationError"]
            /\ UNCHANGED <<data, now, uuid, pc>>
       ELSE LET tx == Transaction(raw, Uuid(uuid + 1)) IN
            /\ uuid' = IF raw.id = NoId THEN uuid + 1 ELSE uuid
            /\ IF tx.account_id \notin DOMAIN data.accounts
               THEN /\ data' = AppendTransaction(data, tx)
                    /\ call' = [op |-> "add_transaction_safe", raw |-> raw,
                                outcome |-> "KeyError"]
                    /\ UNCHANGED <<now, pc>>
               ELSE /\ data' = add_transaction(data, tx, now + 1)
                    /\ now' = now + 1
                    /\ pc' = "open"
                    /\ call' = [op |-> "add_transaction_safe", raw |-> raw,
                                outcome |-> "saving", tx |-> tx]
    /\ UNCHANGED <<proc, fs, loaded>>

\* write_text opens its path, which creates or empties the file,
SaveOpen ==
    /\ proc = "up"
    /\ pc = "open"
    /\ fs' = [fs EXCEPT ![save_write_path] = File(<<>>)]
    /\ pc' = "write"
    /\ UNCHANGED <<proc, data, now, uuid, call, loaded>>

\* and writes the text, one member of the document at a time.
SaveWrite ==
    /\ proc = "up"
    /\ pc = "write"
    /\ LET k == Len(fs[save_write_path].text) IN
        /\ fs' = [fs EXCEPT ![save_write_path] =
                     File(Append(@.text, model_dump_json(data)[k + 1]))]
        /\ pc' = IF k + 1 = Len(model_dump_json(data)) THEN "replace" ELSE "write"
    /\ UNCHANGED <<proc, data, now, uuid, call, loaded>>

\* tmp_path.replace(LEDGER_PATH): the rename, one step; add_transaction_safe returns.
SaveReplace ==
    /\ proc = "up"
    /\ pc = "replace"
    /\ IF fs[TMP_PATH].exists
       THEN /\ fs' = [fs EXCEPT ![LEDGER_PATH] = fs[TMP_PATH], ![TMP_PATH] = Absent]
            /\ call' = [call EXCEPT !.outcome = "ok"]
       ELSE /\ call' = [call EXCEPT !.outcome = "FileNotFoundError"]
            /\ UNCHANGED fs
    /\ pc' = "idle"
    /\ UNCHANGED <<proc, data, now, uuid, loaded>>

\* The process is killed, wherever it stands; the files stay as they are.
Crash ==
    /\ proc = "up"
    /\ proc' = "down"
    /\ data' = NoData
    /\ loaded' = NoData
    /\ pc' = "idle"
    /\ call' = [op |-> "crash", at |-> pc]
    /\ UNCHANGED <<fs, now, uuid>>

NextCrash ==
    \/ Construct
    \/ \E raw \in CrashInputs : BeginAdd(raw)
    \/ SaveOpen
    \/ SaveWrite
    \/ SaveReplace
    \/ Crash

SpecCrash == InitCrash /\ [][NextCrash]_vars

\* ---------------------------------------------------------------- calendar

\* The first day of each month of a year of 365 days, as a day of that year.
MonthFirstDays == <<1, 32, 60, 91, 121, 152, 182, 213, 244, 274, 305, 335>>

\* date.replace(day=1)
FirstOfMonth(d) ==
    LET y   == (d - 1) \div 365
        doy == d - 365 * y
        m   == CHOOSE i \in 1..12 :
                  /\ MonthFirstDays[i] <= doy
                  /\ \A j \in 1..12 : MonthFirstDays[j] <= doy => j <= i
    IN  365 * y + MonthFirstDays[m]

\* date.day
DayOfMonth(d) == d - FirstOfMonth(d) + 1

\* date.replace(day=k)
ReplaceDay(d, k) == FirstOfMonth(d) + k - 1

\* --------------------------------------------------------- read operations

Value(n) == [tag |-> "value", v |-> n]
Never == [tag |-> "never", v |-> 0]
Infinite == [tag |-> "infinite", v |-> 0]

\* sum(...) of a generator: the sum of the values of f.
Sum(f) == SumOver(f, DOMAIN f)

\* Ledger.net_worth
net_worth(d) ==
    Quantize(Sum([a \in DOMAIN d.accounts |->
                    IF d.accounts[a].include_in_net_worth
                    THEN d.accounts[a].balance ELSE 0]))

\* Ledger.monthly_burn_rate. expenses / 30 * 30 is expenses again up to the 28th
\* digit, which the quantize to cents takes away when the amounts are whole cents,
\* as every negative amount of this model is.
monthly_burn_rate(d) ==
    LET cutoff   == Today - 30
        txs      == d.transactions
        expenses == Sum([i \in DOMAIN txs |->
                            IF txs[i].date >= cutoff /\ txs[i].amount < 0
                            THEN Abs(txs[i].amount) ELSE 0])
    IN  Quantize(expenses)

\* The sum of the positive checking and savings balances (ledger.py:78-82,
\* forecaster.py:99-104).
current_liquid_cash(d) ==
    Sum([a \in DOMAIN d.accounts |->
            IF d.accounts[a].type \in {"checking", "savings"} /\ d.accounts[a].balance > 0
            THEN d.accounts[a].balance ELSE 0])

\* Ledger.runway_days. int(cash / (burn / 30)) is the floor of cash * 30 / burn for
\* the burn rates of this model (1.00, 2.00, 3.00, whose thirtieth Decimal rounds
\* down or not at all).
runway_days(d) ==
    LET burn == monthly_burn_rate(d)
        cash == current_liquid_cash(d)
    IN  IF burn <= 0 THEN Infinite
        ELSE IF cash <= 0 THEN Value(0)
        ELSE Value(FloorDiv(cash * 30, burn))

\* str.split(":")[0].strip() or "uncategorized", category being the list of its
\* segments.
TopCategory(category) ==
    IF category[1] \in {"", " "} THEN "uncategorized" ELSE category[1]

\* Ledger.monthly_spending_by_category(month); month is NoMonth for None.
NoMonth == -1
monthly_spending_by_category(d, month) ==
    LET start      == IF month = NoMonth THEN ReplaceDay(Today, 1) ELSE month
        next_month == ReplaceDay(start, 28) + 4
        end        == next_month - DayOfMonth(next_month)
        Spent(tx)  == start <= tx.date /\ tx.date <= end /\ tx.amount < 0
        txs        == d.transactions
        cats       == {TopCategory(txs[i].category) :
                          i \in {j \in DOMAIN txs : Spent(txs[j])}}
    IN  [c \in cats |->
            Quantize(Sum([i \in DOMAIN txs |->
                            IF Spent(txs[i]) /\ TopCategory(txs[i].category) = c
                            THEN Abs(txs[i].amount) ELSE 0]))]

\* Ledger.goal_summary: target_amount is a float and current_amount a Decimal, so
\* their difference raises TypeError for the first active goal; without an active
\* goal the summary is empty.
goal_summary(d) ==
    IF \E g \in DOMAIN d.goals : d.goals[g].status = "active"
    THEN "TypeError"
    ELSE "[]"

\* Forecaster._average_daily_net_flow, as the fraction total / max(1, count); 0 / 1
\* when no transaction is counted.
average_daily_net_flow(d) ==
    LET cutoff == Today - 90
        txs    == d.transactions
        total  == Sum([i \in DOMAIN txs |-> IF txs[i].date >= cutoff THEN txs[i].amount ELSE 0])
        count  == Sum([i \in DOMAIN txs |-> IF txs[i].date >= cutoff THEN 1 ELSE 0])
    IN  IF count > 0 THEN [n |-> total, d |-> Max(1, count)] ELSE [n |-> 0, d |-> 1]

\* The one-time expenses that project_balance subtracts.
OneTimeTotal(one_time_expenses, target_date) ==
    Sum([i \in DOMAIN one_time_expenses |->
                IF Today < one_time_expenses[i].date
                     /\ one_time_expenses[i].date <= target_date
                THEN one_time_expenses[i].amount ELSE 0])

\* Forecaster.project_balance. AVG_DAYS_PER_MONTH is 30.4375 = 487 / 16.
project_balance(d, target_date, extra_monthly_savings, one_time_expenses) ==
    LET days_ahead == target_date - Today
        cash       == current_liquid_cash(d)
        flow       == average_daily_net_flow(d)
        once       == OneTimeTotal(one_time_expenses, target_date)
    IN  IF days_ahead <= 0 THEN cash
        ELSE QuantizeRatio((cash - once) * flow.d * 487
                             + flow.n * days_ahead * 487
                             + extra_monthly_savings * 16 * days_ahead * flow.d,
                           flow.d * 487)

\* Forecaster.months_until_goal. months is (target - current) / (flow * 487 / 16);
\* to_integral_value() rounds it half to even, and 1 is added.
months_until_goal(d, target_amount) ==
    LET current == net_worth(d)
        flow    == average_daily_net_flow(d)
    IN  IF current >= target_amount THEN Value(0)
        ELSE IF flow.n <= 0 THEN Never
        ELSE Value(Max(1, RoundHalfEven((target_amount - current) * 16 * flow.d,
                                        487 * flow.n) + 1))

\* Forecaster.forecast_monthly_balances(months_ahead)
forecast_monthly_balances(d, months_ahead) ==
    LET current_cash == current_liquid_cash(d)
        flow         == average_daily_net_flow(d)
    IN  [k \in 1..(months_ahead + 1) |->
            LET i          == k - 1
                month_date == ReplaceDay(ReplaceDay(Today, 1) + 32 * i, 1)
                days       == (month_date - Today) + i
            IN  [date    |-> month_date,
                 balance |-> QuantizeRatio(current_cash * flow.d + flow.n * days, flow.d)]]

\* Forecaster.when_can_i_retire(annual_spending, safe_withdrawal_rate), the rate in
\* percent (4 for the default 0.04).
when_can_i_retire(d, annual_spending, rate_percent) ==
    LET required_nest_egg == (annual_spending * 100) \div rate_percent
        months            == months_until_goal(d, required_nest_egg)
    IN  IF months = Never THEN Never ELSE Value(Today + 30 * months.v)

\* --------------------------------------------------- the read-only callers

ReadInputs ==
    [id          : {NoId},
     date        : {Today - 91, Today - 30, Today + 1},
     amount      : {[kind |-> "str", v |-> -200], [kind |-> "str", v |-> 200],
                    [kind |-> "decimal", v |-> 201]},
     description : {"x"},
     category    : {<<"food", "groceries">>, <<" ", "misc">>},
     account_id  : {"chase"},
     type        : {"income", "expense"}]

Targets == {0, 1000, 12975}
TargetDates == {Today, Today + 30}
ExtraSavings == {0, 974}
OneTimeLists ==
    {<<>>, <<[date |-> Today, amount |-> 100], [date |-> Today + 1, amount |-> 100],
             [date |-> Today + 31, amount |-> 100]>>}
Months == {NoMonth, Today - 30}
AnnualSpendings == {40, 519}

InitRead ==
    /\ proc = "down"
    /\ data = NoData
    /\ fs = [p \in Paths |-> IF p = LEDGER_PATH THEN File(ExampleDoc("1.0")) ELSE Absent]
    /\ now = 1
    /\ uuid = 0
    /\ pc = "idle"
    /\ call = [op |-> "none"]
    /\ loaded = NoData

\* A call that only reads: nothing but the record of the call changes.
Returns(c) ==
    /\ proc = "up"
    /\ pc = "idle"
    /\ call' = c
    /\ UNCHANGED <<proc, data, fs, now, uuid, pc, loaded>>

NetWorth == Returns([op |-> "net_worth", result |-> net_worth(data)])

MonthlyBurnRate ==
    Returns([op |-> "monthly_burn_rate", result |-> monthly_burn_rate(data)])

RunwayDays == Returns([op |-> "runway_days", result |-> runway_days(data)])

MonthlySpendingByCategory(month) ==
    Returns([op |-> "monthly_spending_by_category", month |-> month,
             result |-> monthly_spending_by_category(data, month)])

GoalSummary == Returns([op |-> "goal_summary", result |-> goal_summary(data)])

\* project_balance that takes the one-time expenses out of the checking account.
ProjectBalanceSpending(target_date, extra, one_time) ==
    /\ proc = "up"
    /\ pc = "idle"
    /\ "chase" \in DOMAIN data.accounts
    /\ call' = [op |-> "project_balance", target_date |-> target_date,
                extra |-> extra, one_time |-> one_time,
                result |-> project_balance(data, target_date, extra, one_time)]
    /\ data' = [data EXCEPT !.accounts["chase"].balance =
                                @ - OneTimeTotal(one_time, target_date)]
    /\ UNCHANGED <<proc, fs, now, uuid, pc, loaded>>

ProjectBalance(target_date, extra, one_time) ==
    Returns([op |-> "project_balance", target_date |-> target_date,
             extra |-> extra, one_time |-> one_time,
             result |-> project_balance(data, target_date, extra, one_time)])

MonthsUntilGoal(target) ==
    Returns([op |-> "months_until_goal", target |-> target,
             result |-> months_until_goal(data, target)])

ForecastMonthlyBalances(months_ahead) ==
    Returns([op |-> "forecast_monthly_balances", months_ahead |-> months_ahead,
             result |-> forecast_monthly_balances(data, months_ahead)])

WhenCanIRetire(annual_spending) ==
    Returns([op |-> "when_can_i_retire", annual_spending |-> annual_spending,
             result |-> when_can_i_retire(data, annual_spending, 4)])

NextRead ==
    \/ Construct
    \/ \E raw \in ReadInputs : AddTransactionSafe(raw)
    \/ NetWorth
    \/ MonthlyBurnRate
    \/ RunwayDays
    \/ \E month \in Months : MonthlySpendingByCategory(month)
    \/ GoalSummary
    \/ \E t \in TargetDates, e \in ExtraSavings, o \in OneTimeLists : ProjectBalance(t, e, o)
    \/ \E target \in Targets : MonthsUntilGoal(target)
    \/ \E m \in {0, 2} : ForecastMonthlyBalances(m)
    \/ \E a \in AnnualSpendings : WhenCanIRetire(a)

SpecRead == InitRead /\ [][NextRead]_vars

\* ------------------------------------------- adds to the accounts at hand

\* The complete raw inputs that name an account of the example ledger: ids
\* supplied and ids left to the default factory.
IdInputs == {r \in CompleteInputs : r.account_id = "chase"}

NextIds ==
    \/ Construct
    \/ Exit
    \/ \E raw \in IdInputs : AddTransactionSafe(raw)

SpecIds == InitRead /\ [][NextIds]_vars

\* ------------------------------------------------------------- two writers

\* Two callers of add_transaction_safe. In the specification of this section the
\* variables are per writer or per process: proc[w] is the process writer w runs in
\* and whether its caller takes the exclusive lock around the call, data[p] is the
\* Ledger.data of process p, pc[w] is where w stands in its call, call[w] holds the
\* call's local variables, and loaded is the LedgerData every ledger was built from.
Writers == {"w1", "w2"}

\* Two threads of one process share the singleton `ledger`; two processes have one
\* each. Either both callers take the lock or neither does.
Arrangements ==
    {[w \in Writers |->
        [process |-> IF shared \/ w = "w1" THEN "p1" ELSE "p2", locks |-> l]] :
     shared \in BOOLEAN, l \in BOOLEAN}

\* Valid raw inputs for an account of the example ledger, the id left to uuid4().
WriterInputs ==
    {r \in CompleteInputs :
        /\ r.id = NoId /\ r.date = Today - 30 /\ r.account_id = "chase"
        /\ r.type = "transfer" /\ r.amount.v # 0}

InitWriters ==
    /\ proc \in Arrangements
    /\ fs = [p \in Paths |-> IF p = LEDGER_PATH THEN File(ExampleDoc("1.0")) ELSE Absent]
    /\ now = 1
    /\ uuid = 0
    /\ data = [p \in {proc[w].process : w \in Writers} |-> load_from_disk(fs, now)]
    /\ loaded = load_from_disk(fs, now)
    /\ pc = [w \in Writers |-> "idle"]
    /\ call = [w \in Writers |-> [op |-> "none"]]

\* The process of writer w: the key of `self.data`.
Self(w) == proc[w].process

\* Whether w is inside add_transaction_safe.
Inside(w) == pc[w] \notin {"idle", "done"}

\* The exclusive lock of the callers that take one: held from the call to the
\* return, so w may enter when no other locking caller is inside.
MayEnter(w) ==
    proc[w].locks => \A v \in Writers \ {w} : ~(proc[v].locks /\ Inside(v))

\* add_transaction_safe(raw) up to the append: Transaction.model_validate, which
\* touches nothing shared, and self.data.transactions.append(tx).
EnterAdd(w, raw) ==
    /\ pc[w] = "idle"
    /\ MayEnter(w)
    /\ TransactionValid(raw)
    /\ raw.account_id \in DOMAIN data[Self(w)].accounts
    /\ Len(data[Self(w)].transactions) < MaxTx
    /\ uuid < MaxUuid
    /\ LET tx == Transaction(raw, Uuid(uuid + 1)) IN
        /\ data' = [data EXCEPT ![Self(w)] = AppendTransaction(@, tx)]
        /\ call' = [call EXCEPT ![w] =
                      [op |-> "add_transaction_safe", raw |-> raw, tx |-> tx,
                       outcome |-> "running", read |-> 0, text |-> <<>>,
                       fd |-> "none"]]
    /\ uuid' = uuid + 1
    /\ pc' = [pc EXCEPT ![w] = "read"]
    /\ UNCHANGED <<proc, fs, now, loaded>>

\* account.balance += tx.amount, first half: the balance is read,
ReadBalance(w) ==
    /\ pc[w] = "read"
    /\ call' = [call EXCEPT ![w].read =
                  data[Self(w)].accounts[call[w].tx.account_id].balance]
    /\ pc' = [pc EXCEPT ![w] = "store"]
    /\ UNCHANGED <<proc, data, fs, now, uuid, loaded>>

\* second half: the sum is stored.
StoreBalance(w) ==
    /\ pc[w] = "store"
    /\ data' = [data EXCEPT ![Self(w)].accounts[call[w].tx.account_id].balance =
                  call[w].read + call[w].tx.amount]
    /\ pc' = [pc EXCEPT ![w] = "stamp"]
    /\ UNCHANGED <<proc, fs, now, uuid, call, loaded>>

\* self.data.metadata["last_updated"] = datetime.utcnow().isoformat()
Stamp(w) ==
    /\ pc[w] = "stamp"
    /\ now' = now + 1
    /\ data' = [data EXCEPT ![Self(w)].metadata.last_updated = now + 1]
    /\ pc' = [pc EXCEPT ![w] = "dump"]
    /\ UNCHANGED <<proc, fs, uuid, call, loaded>>

\* save: self.data.model_dump_json(indent=2), the text of the ledger as it is now.
Dump(w) ==
    /\ pc[w] = "dump"
    /\ call' = [call EXCEPT ![w].text = model_dump_json(data[Self(w)])]
    /\ pc' = [pc EXCEPT ![w] = "open"]
    /\ UNCHANGED <<proc, data, fs, now, uuid, loaded>>

\* save: write_text opens the temporary path, which creates the file or empties
\* the one that is there.
OpenTmp(w) ==
    /\ pc[w] = "open"
    /\ fs' = [fs EXCEPT ![save_write_path] = File(<<>>)]
    /\ call' = [call EXCEPT ![w].fd = save_write_path]
    /\ pc' = [pc EXCEPT ![w] = "write"]
    /\ UNCHANGED <<proc, data, now, uuid, loaded>>

\* What a file that held `old` may hold once `text` is written from its start: the
\* text, followed by what is left of a longer old content. A text with more
\* transactions is the longer one; of two different texts with as many, either.
WriteOver(old, text) ==
    IF old = <<>> \/ old = text THEN {text}
    ELSE IF Len(old[2]) < Len(text[2]) THEN {text}
    ELSE IF Len(old[2]) > Len(text[2]) THEN {Append(text, [tail |-> TRUE])}
    ELSE {text, Append(text, [tail |-> TRUE])}

\* save: write_text writes the text to the file it opened, wherever that file is
\* by now, and closes it.
WriteText(w) ==
    /\ pc[w] = "write"
    /\ \E new \in WriteOver(fs[call[w].fd].text, call[w].text) :
          fs' = [fs EXCEPT ![call[w].fd] = File(new)]
    /\ call' = [call EXCEPT ![w].fd = "none"]
    /\ pc' = [pc EXCEPT ![w] = "replace"]
    /\ UNCHANGED <<proc, data, now, uuid, loaded>>

\* save: tmp_path.replace(LEDGER_PATH), and add_transaction_safe returns. The file
\* moves with whoever has it open; without a temporary file the rename raises
\* FileNotFoundError.
ReplaceTmp(w) ==
    /\ pc[w] = "replace"
    /\ IF fs[TMP_PATH].exists
       THEN /\ fs' = [fs EXCEPT ![LEDGER_PATH] = fs[TMP_PATH], ![TMP_PATH] = Absent]
            /\ call' = [v \in Writers |->
                          IF v = w THEN [call[v] EXCEPT !.outcome = "ok"]
                          ELSE IF pc[v] = "write" /\ call[v].fd = TMP_PATH
                               THEN [call[v] EXCEPT !.fd = LEDGER_PATH]
                               ELSE call[v]]
       ELSE /\ call' = [call EXCEPT ![w].outcome = "FileNotFoundError"]
            /\ UNCHANGED fs
    /\ pc' = [pc EXCEPT ![w] = "done"]
    /\ UNCHANGED <<proc, data, now, uuid, loaded>>

NextWriters ==
    \E w \in Writers :
        \/ \E raw \in WriterInputs : EnterAdd(w, raw)
        \/ ReadBalance(w)
        \/ StoreBalance(w)
        \/ Stamp(w)
        \/ Dump(w)
        \/ OpenTmp(w)
        \/ WriteText(w)
        \/ ReplaceTmp(w)

SpecWriters == InitWriters /\ [][NextWriters]_vars

\* ------------------------------------------------------------------ claims

IsAdd(c) == c.op = "add_transaction_safe"

\* The signed amounts of the transactions of txs from index i on that name account a.
RECURSIVE SumFor(_, _, _)
SumFor(txs, i, a) ==
    IF i > Len(txs) THEN 0
    ELSE (IF txs[i].account_id = a THEN txs[i].amount ELSE 0) + SumFor(txs, i + 1, a)

\* C1: a successful add_transaction_safe of a valid transaction on an existing
\* account appends exactly that transaction, adds its signed amount to that
\* account's balance, leaves every other account alone, and has written the whole
\* ledger to the ledger file, so that loading the file gives back the same
\* transaction sequence and balances.
C1_AddAppliesAndPersists ==
    [][(IsAdd(call') /\ call'.outcome = "ok") =>
         LET tx == call'.tx
             doc == fs'[LEDGER_PATH].text
         IN  /\ tx.account_id \in DOMAIN data.accounts
             /\ data'.transactions = Append(data.transactions, tx)
             /\ data'.accounts[tx.account_id].balance
                  = data.accounts[tx.account_id].balance + tx.amount
             /\ \A a \in DOMAIN data.accounts \ {tx.account_id} :
                  data'.accounts[a] = data.accounts[a]
             /\ fs'[LEDGER_PATH].exists
             /\ model_validate_ok(doc)
             /\ model_validate(doc).transactions = data'.transactions
             /\ model_validate(doc).accounts = data'.accounts]_vars

\* C2: an add_transaction_safe that rejects its input (a sign that contradicts the
\* type, a missing field, an account_id that names no account) leaves the ledger in
\* memory and the files as they were.
C2_RejectionChangesNothing ==
    [][(IsAdd(call') /\ call'.outcome # "ok") => (data' = data /\ fs' = fs)]_vars

\* The sign rule of the specification: income is positive, expense is negative.
SignRule(type, amount) ==
    /\ type = "income" => amount > 0
    /\ type = "expense" => amount < 0

\* C3: every transaction of the ledger satisfies type = income => amount > 0 and
\* type = expense => amount < 0, and an input that violates this (an income or
\* expense of 0 included) is rejected.
C3_SignInvariant ==
    /\ proc = "up" =>
         \A i \in 1..Len(data.transactions) :
            SignRule(data.transactions[i].type, data.transactions[i].amount)
    /\ (IsAdd(call) /\ ~SignRule(call.raw.type, parse_amount(call.raw.amount)))
         => call.outcome = "ValidationError"

\* C4: every account's balance is its balance in the ledger the process started
\* from plus the signed amounts of the transactions added since then that name it,
\* after any sequence of accepted and rejected add_transaction_safe calls.
C4_BalanceIsInitialPlusApplied ==
    proc = "up" =>
        /\ DOMAIN data.accounts = DOMAIN loaded.accounts
        /\ \A a \in DOMAIN data.accounts :
              data.accounts[a].balance
                = loaded.accounts[a].balance
                  + SumFor(data.transactions, Len(loaded.transactions) + 1, a)

\* C4's case: a call rejected for its account (whose transaction stays recorded)
\* and a call that applied an amount finer than a cent to the checking account.
C4_Witness ==
    /\ proc = "up"
    /\ Len(data.transactions) = Len(loaded.transactions) + 2
    /\ \E i \in DOMAIN data.transactions :
          data.transactions[i].account_id \notin DOMAIN data.accounts
    /\ "chase" \in DOMAIN data.accounts
    /\ data.accounts["chase"].balance = loaded.accounts["chase"].balance + 201

\* C6: loading a ledger file whose metadata carries a schema version other than
\* the known one fails and yields no Ledger.
C6_UnknownVersionRejected ==
    (/\ call.op = "Ledger"
     /\ fs[LEDGER_PATH].exists
     /\ JsonOk(fs[LEDGER_PATH].text)
     /\ fs[LEDGER_PATH].text[4].version # KnownVersion)
        => (proc = "failed" /\ data = NoData)

\* C5: an interrupted save leaves the ledger file holding the complete previous
\* version, and the rename puts the complete new version there: the ledger file
\* changes only in the rename step, to the whole text of the ledger in memory, and
\* never holds a part of a document.
C5_SaveIsAtomic ==
    [][/\ fs'[LEDGER_PATH] # fs[LEDGER_PATH] =>
            /\ pc = "replace" /\ pc' = "idle"
            /\ fs'[LEDGER_PATH] = File(model_dump_json(data))
       /\ fs'[LEDGER_PATH].exists => JsonOk(fs'[LEDGER_PATH].text)]_vars

\* C5's case: the process was killed while the temporary file of a second save was
\* partly written, after a first save had been renamed into place.
C5_Witness ==
    /\ call.op = "crash" /\ call.at = "write"
    /\ fs[TMP_PATH].exists
    /\ Len(fs[TMP_PATH].text) \in 1..3
    /\ fs[LEDGER_PATH].exists
    /\ Len(fs[LEDGER_PATH].text[2]) = 1

\* Whether a date lies in the trailing window of the given length: the last `days`
\* days, ending today.
InTrailingWindow(date, days) == Today - days <= date /\ date <= Today

\* The mean signed amount of the transactions of the trailing 90 days, as a
\* fraction; 0 when there is none.
TrailingDailyNetFlow(d) ==
    LET txs   == d.transactions
        total == Sum([i \in DOMAIN txs |->
                        IF InTrailingWindow(txs[i].date, 90) THEN txs[i].amount ELSE 0])
        count == Sum([i \in DOMAIN txs |->
                        IF InTrailingWindow(txs[i].date, 90) THEN 1 ELSE 0])
    IN  IF count > 0 THEN [n |-> total, d |-> count] ELSE [n |-> 0, d |-> 1]

\* months_until_goal as the specification states it: 0 when the net worth meets the
\* target, never when the monthly net flow is not positive, else the ceiling of
\* (target - net worth) / monthly net flow, at least 1. The flow is the code's own.
MonthsUntilGoalStated(d, target_amount) ==
    LET current == net_worth(d)
        flow    == average_daily_net_flow(d)
    IN  IF current >= target_amount THEN Value(0)
        ELSE IF flow.n <= 0 THEN Never
        ELSE Value(Max(1, CeilDiv((target_amount - current) * 16 * flow.d, 487 * flow.n)))

\* C7: months_until_goal(target) is 0 when net worth >= target, else "never" when
\* the monthly net flow is <= 0, else max(1, ceiling((target - net worth) / monthly
\* net flow)); an exact integer quotient n >= 1 gives n.
C7_MonthsIsCeiling ==
    (proc = "up" /\ call.op = "months_until_goal")
        => call.result = MonthsUntilGoalStated(data, call.target)

\* runway_days as the specification states it, the burn rate being the sum of the
\* absolute values of the negative amounts dated within the last 30 days.
RunwayDaysStated(d) ==
    LET txs  == d.transactions
        burn == Sum([i \in DOMAIN txs |->
                        IF InTrailingWindow(txs[i].date, 30) /\ txs[i].amount < 0
                        THEN Abs(txs[i].amount) ELSE 0])
        cash == current_liquid_cash(d)
    IN  IF burn <= 0 THEN Infinite
        ELSE IF cash <= 0 THEN Value(0)
        ELSE Value(FloorDiv(cash * 30, burn))

\* C8: runway_days is "infinite" when the trailing-30-day burn rate is <= 0, else 0
\* when liquid cash is <= 0, else floor(cash / (burn / 30)).
C8_RunwayFormula ==
    (proc = "up" /\ call.op = "runway_days") => call.result = RunwayDaysStated(data)

\* project_balance as the specification states it, over the mean daily net flow of
\* the trailing 90 days.
ProjectBalanceStated(d, target_date, extra, one_time) ==
    LET days_ahead == target_date - Today
        cash       == current_liquid_cash(d)
        flow       == TrailingDailyNetFlow(d)
        once       == OneTimeTotal(one_time, target_date)
    IN  IF days_ahead <= 0 THEN cash
        ELSE QuantizeRatio((cash - once) * flow.d * 487 + flow.n * days_ahead * 487
                             + extra * 16 * days_ahead * flow.d,
                           flow.d * 487)

\* C9: project_balance returns liquid cash unchanged for a target date of today or
\* earlier, else cash + (average daily net flow + extra / 30.4375) * days ahead
\* minus the one-time expenses after today and up to the target date, quantized to
\* cents; and with no transaction in the trailing 90 days and default arguments,
\* project_balance(today + 30) is the liquid cash.
C9_ProjectBalanceFormula ==
    (proc = "up" /\ call.op = "project_balance") =>
        /\ call.result
             = ProjectBalanceStated(data, call.target_date, call.extra, call.one_time)
        /\ (/\ \A i \in 1..Len(data.transactions) :
                  ~InTrailingWindow(data.transactions[i].date, 90)
            /\ call.target_date = Today + 30
            /\ call.extra = 0
            /\ call.one_time = <<>>)
              => call.result = current_liquid_cash(data)

ReadOps ==
    {"net_worth", "monthly_burn_rate", "runway_days", "monthly_spending_by_category",
     "goal_summary", "project_balance", "months_until_goal",
     "forecast_monthly_balances", "when_can_i_retire"}

\* C10: every Forecaster operation and every Ledger read operation leaves the
\* ledger in memory and the files unchanged, whatever the state and the arguments;
\* of the operations of a running ledger only add_transaction_safe changes them.
C10_ReadsChangeNothing ==
    [][/\ call'.op \in ReadOps => (data' = data /\ fs' = fs)
       /\ (proc = "up" /\ (data' # data \/ fs' # fs)) => IsAdd(call')]_vars

\* C10's case: a projection with one-time expenses that count has returned, on a
\* ledger that add_transaction_safe has changed and saved.
C10_Witness ==
    /\ proc = "up"
    /\ call.op = "project_balance"
    /\ OneTimeTotal(call.one_time, call.target_date) > 0
    /\ data # loaded
    /\ fs[LEDGER_PATH] = File(model_dump_json(data))

\* Whether no two transactions of the sequence carry the same id.
IdsUnique(txs) == \A i, j \in DOMAIN txs : txs[i].id = txs[j].id => i = j

\* C11: in every ledger the program can reach, in memory and in the ledger file,
\* no two transactions of the transaction sequence have the same id, whether the
\* store generated the id or the raw input of add_transaction_safe supplied it.
C11_IdsAreUnique ==
    /\ proc = "up" => IdsUnique(data.transactions)
    /\ (fs[LEDGER_PATH].exists /\ JsonOk(fs[LEDGER_PATH].text))
          => IdsUnique(fs[LEDGER_PATH].text[2])

\* Both writers have returned from add_transaction_safe.
BothReturned == \A w \in Writers : pc[w] = "done"

\* Both callers took the exclusive lock.
BothLocked == \A w \in Writers : proc[w].locks

\* The writers are threads of one process, sharing its Ledger.
OneLedger == \A v, w \in Writers : Self(v) = Self(w)

\* The ledger file holds a whole document with writer w's transaction in it.
FileHasTransaction(w) ==
    /\ fs[LEDGER_PATH].exists
    /\ JsonOk(fs[LEDGER_PATH].text)
    /\ \E i \in DOMAIN fs[LEDGER_PATH].text[2] : fs[LEDGER_PATH].text[2][i] = call[w].tx

\* The amounts of the writers in S that name account a.
WritersAmount(S, a) ==
    Sum([w \in S |-> IF call[w].tx.account_id = a THEN call[w].tx.amount ELSE 0])

\* The ledger file holds a whole document in which every balance is the loaded one
\* plus the amounts of the writers in S.
FileHasBalanceEffects(S) ==
    /\ fs[LEDGER_PATH].exists
    /\ JsonOk(fs[LEDGER_PATH].text)
    /\ \A a \in DOMAIN loaded.accounts :
          fs[LEDGER_PATH].text[1][a].balance
            = loaded.accounts[a].balance + WritersAmount(S, a)

\* C12 as stated, its second half: when the two calls are serialized under an
\* exclusive lock (two threads, or two processes each holding a ledger loaded from
\* the same file), the final ledger file contains both transactions and both
\* balance effects.
C12_SerializedKeepsBoth ==
    (BothLocked /\ BothReturned) =>
        /\ \A w \in Writers : FileHasTransaction(w)
        /\ FileHasBalanceEffects(Writers)

\* C12, amended: serialized under an exclusive lock, two threads sharing the one
\* Ledger both return normally and leave a ledger file with both transactions and
\* both balance effects; two processes each holding its own ledger loaded from the
\* same file both return normally as well, but the file they leave is the later
\* writer's ledger, with that writer's transaction and balance effect only. (That
\* without a lock an interleaving loses a transaction or a balance effect, or makes
\* a rename fail, is the state C12_Witness describes.)
C12_SerializedThreadsKeepBoth ==
    (BothLocked /\ BothReturned) =>
        /\ \A w \in Writers : call[w].outcome = "ok"
        /\ OneLedger =>
              /\ \A w \in Writers : FileHasTransaction(w)
              /\ FileHasBalanceEffects(Writers)
        /\ ~OneLedger =>
              \E w \in Writers :
                  /\ fs[LEDGER_PATH] = File(model_dump_json(data[Self(w)]))
                  /\ fs[LEDGER_PATH].text[2] = <<call[w].tx>>
                  /\ FileHasBalanceEffects({w})

\* C12's case: two threads on the one Ledger, no lock, both writing the same
\* temporary path; both calls are over, one of them ended in the rename's
\* FileNotFoundError, and the ledger file holds both transactions but the balance
\* effect of only one.
C12_Witness ==
    /\ BothReturned
    /\ ~BothLocked
    /\ OneLedger
    /\ \E w \in Writers : call[w].outcome = "FileNotFoundError"
    /\ \A w \in Writers : FileHasTransaction(w)
    /\ \E w \in Writers : FileHasBalanceEffects({w})
    /\ ~FileHasBalanceEffects(Writers)

====
